---- MODULE Spec2Model ----
(***************************************************************************)
(* Tab Memory browser extension: the tab-event handlers, the Local Event   *)
(* Store kept in chrome.storage.local (StorageManager) and the sync engine *)
(* (ApiClient.syncPendingEvents) talking to POST /events/batch.            *)
(*                                                                         *)
(* Every async method is cut at its awaits: one action per run-to-         *)
(* completion segment of the JavaScript event loop.  A chrome.storage      *)
(* read or write takes effect in the action that issues it.                *)
(***************************************************************************)
EXTENDS Integers, Sequences, FiniteSets, TLC

(* ------------------------------------------------------------------ *)
(* Program constants                                                  *)
(* ------------------------------------------------------------------ *)
MAX_LOCAL_EVENTS == 1000
batchSize == 50
autoSyncThreshold == 10
maxTitleLength == 1000
maxUrlLength == 2048
maxBatchEvents == 100
\* expires_in of the login response, seconds
expiresIn == 86400
PROMOTION_THRESHOLD == 5

(* ------------------------------------------------------------------ *)
(* Bounds of the model                                                *)
(* ------------------------------------------------------------------ *)
\* the reading of the clock at which the handlers stop creating events
MaxEvents == 3
\* tab-event handlers that may be suspended at an await at the same time
MaxHandlers == 2
\* syncPendingEvents invocations that may overlap
MaxSyncCalls == 2

Handlers == 1..MaxHandlers
SyncCalls == 1..MaxSyncCalls

NULL == "null"
Token == "access_token"

(* ------------------------------------------------------------------ *)
(* Inputs: the tabs the browser reports                               *)
(* ------------------------------------------------------------------ *)
\* a missing (undefined) string property is the empty string: the code
\* only tests these properties for truthiness
Tab1 ==
    [id |-> 1, windowId |-> 1, url |-> "https://a.example/?q=1&token=abc",
     title |-> "A"]
\* tabs showing pages of the browser itself
InternalTabs ==
    { [id |-> 1, windowId |-> 1, url |-> "chrome://settings/?token=abc",
       title |-> "Settings"],
      [id |-> 2, windowId |-> 1, url |-> "about:blank", title |-> ""] }
BrowserTabs ==
    { Tab1, [id |-> 2, windowId |-> 1, url |-> "", title |-> "New Tab"] }
       \cup InternalTabs
TabIds == {t.id : t \in BrowserTabs}
TabEventTypes == {"update"}
\* the types setupListeners passes to handleTabEvent
EventTypes == {"open", "update", "activate"}

\* shouldIgnoreUrl: url.startsWith(prefix) for one of the ignored prefixes
shouldIgnoreUrlChromeOnly(url) == SubSeq(url, 1, 9) = "chrome://"
ignoredPrefixes ==
    <<"chrome://", "chrome-extension://", "edge://", "about:",
      "moz-extension://", "safari-extension://", "data:", "javascript:">>
StartsWith(s, prefix) ==
    /\ Len(prefix) <= Len(s)
    /\ SubSeq(s, 1, Len(prefix)) = prefix
shouldIgnoreUrl(url) ==
    \E k \in 1..Len(ignoredPrefixes) : StartsWith(url, ignoredPrefixes[k])

\* --- redactSensitiveUrl ---
RECURSIVE IndexFrom(_, _, _)
IndexFrom(s, ch, i) ==
    IF i > Len(s) THEN 0
    ELSE IF SubSeq(s, i, i) = ch THEN i ELSE IndexFrom(s, ch, i + 1)
\* the position of the first ch in s, 0 if there is none
IndexOf(s, ch) == IndexFrom(s, ch, 1)

RECURSIVE Split(_, _)
Split(s, ch) ==
    LET k == IndexOf(s, ch)
    IN  IF k = 0 THEN <<s>>
        ELSE <<SubSeq(s, 1, k - 1)>> \o Split(SubSeq(s, k + 1, Len(s)), ch)

sensitiveParams ==
    <<"token", "access_token", "auth_token", "api_key", "apikey",
      "key", "secret", "password", "pwd", "pass",
      "session", "sessionid", "session_id", "sid",
      "oauth", "oauth_token", "oauth_signature",
      "code", "auth_code", "authorization_code",
      "client_secret", "refresh_token",
      "jwt", "bearer">>
RedactionMarker == "[REDACTED]"

\* application/x-www-form-urlencoded: the characters of this model's
\* strings that are percent-encoded, each with its code; letters, digits,
\* "*", "-", "." and "_" stand for themselves and a space becomes "+"
PercentCodes ==
    << <<"[", "%5B">>, <<"]", "%5D">>, <<"%", "%25">>, <<"+", "%2B">>,
       <<"=", "%3D">>, <<"&", "%26">>, <<"/", "%2F">>, <<":", "%3A">>,
       <<"?", "%3F">>, <<"#", "%23">> >>
EncodeChar(ch) ==
    IF ch = " " THEN "+"
    ELSE IF \E k \in 1..Len(PercentCodes) : PercentCodes[k][1] = ch
         THEN LET k == CHOOSE k \in 1..Len(PercentCodes) :
                          PercentCodes[k][1] = ch
              IN  PercentCodes[k][2]
         ELSE ch
\* the character a percent code stands for, the code itself if it is none
DecodeCode(code) ==
    IF code = "%20" THEN " "
    ELSE IF \E k \in 1..Len(PercentCodes) : PercentCodes[k][2] = code
         THEN LET k == CHOOSE k \in 1..Len(PercentCodes) :
                          PercentCodes[k][2] = code
              IN  PercentCodes[k][1]
         ELSE code

RECURSIVE FormEncode(_)
FormEncode(v) ==
    IF Len(v) = 0 THEN ""
    ELSE EncodeChar(SubSeq(v, 1, 1)) \o FormEncode(SubSeq(v, 2, Len(v)))

FormDecodeNone(v) == v
RECURSIVE FormDecode(_)
FormDecode(v) ==
    IF Len(v) = 0 THEN ""
    ELSE IF SubSeq(v, 1, 1) = "+"
         THEN " " \o FormDecode(SubSeq(v, 2, Len(v)))
         ELSE IF SubSeq(v, 1, 1) = "%" /\ Len(v) >= 3
                 /\ DecodeCode(SubSeq(v, 1, 3)) # SubSeq(v, 1, 3)
              THEN DecodeCode(SubSeq(v, 1, 3))
                      \o FormDecode(SubSeq(v, 4, Len(v)))
              ELSE SubSeq(v, 1, 1) \o FormDecode(SubSeq(v, 2, Len(v)))

\* new URLSearchParams(query): the name=value pairs, decoded
ParsePair(piece) ==
    LET k == IndexOf(piece, "=")
    IN  IF k = 0 THEN [name |-> FormDecode(piece), value |-> ""]
        ELSE [name |-> FormDecode(SubSeq(piece, 1, k - 1)),
              value |-> FormDecode(SubSeq(piece, k + 1, Len(piece)))]
ParseParams(query) ==
    LET pieces == SelectSeq(Split(query, "&"), LAMBDA x : x # "")
    IN  [k \in 1..Len(pieces) |-> ParsePair(pieces[k])]

\* searchParams.has(name)
HasParam(params, name) == \E k \in 1..Len(params) : params[k].name = name

\* searchParams.set(name, value): the first pair of that name gets the
\* value, the others of that name are removed
RECURSIVE SetFrom(_, _, _, _)
SetFrom(params, name, value, done) ==
    IF Len(params) = 0 THEN <<>>
    ELSE IF params[1].name # name
         THEN <<params[1]>> \o SetFrom(Tail(params), name, value, done)
         ELSE IF done THEN SetFrom(Tail(params), name, value, TRUE)
              ELSE <<[name |-> name, value |-> value]>>
                      \o SetFrom(Tail(params), name, value, TRUE)
SetParam(params, name, value) == SetFrom(params, name, value, FALSE)

\* the loop over sensitiveParams, from the k-th name on
RECURSIVE RedactFrom(_, _)
RedactFrom(params, k) ==
    IF k > Len(sensitiveParams) THEN params
    ELSE RedactFrom(IF HasParam(params, sensitiveParams[k])
                    THEN SetParam(params, sensitiveParams[k], RedactionMarker)
                    ELSE params,
                    k + 1)

\* searchParams.toString()
RECURSIVE SerializeParams(_)
SerializeParams(params) ==
    IF Len(params) = 0 THEN ""
    ELSE FormEncode(params[1].name) \o "=" \o FormEncode(params[1].value)
            \o (IF Len(params) = 1 THEN ""
                ELSE "&" \o SerializeParams(Tail(params)))

redactNothing(url) == url
\* new URL(url) throws unless url begins with a scheme; the urls a tab
\* reports are serialized already, so toString() of an untouched URL gives
\* the url back
redactSensitiveUrl(url) ==
    IF IndexOf(url, ":") <= 1 THEN url
    ELSE LET h == IndexOf(url, "#")
             front == IF h = 0 THEN url ELSE SubSeq(url, 1, h - 1)
             hash == IF h = 0 THEN "" ELSE SubSeq(url, h, Len(url))
             q == IndexOf(front, "?")
             base == IF q = 0 THEN front ELSE SubSeq(front, 1, q - 1)
             query == IF q = 0 THEN "" ELSE SubSeq(front, q + 1, Len(front))
             params == ParseParams(query)
         IN  IF \E k \in 1..Len(sensitiveParams) :
                    HasParam(params, sensitiveParams[k])
             THEN base \o "?" \o SerializeParams(RedactFrom(params, 1)) \o hash
             ELSE url

(* ------------------------------------------------------------------ *)
(* Events                                                             *)
(* ------------------------------------------------------------------ *)
\* Omit<Event, 'id' | 'user_id'>; ts is the value of new Date(), a clock
\* that advances with every event created
NewEvent(windowId, tabId, type, title, url, ts) ==
    [window_id |-> windowId, tab_id |-> tabId, type |-> type,
     title |-> title, url |-> url, ts |-> ts]

\* { ...event, localId }
WithLocalId(event, localId) ==
    [window_id |-> event.window_id, tab_id |-> event.tab_id,
     type |-> event.type, title |-> event.title, url |-> event.url,
     ts |-> event.ts, localId |-> localId]

\* batch.map(({ localId, ...event }) => event)
WithoutLocalId(e) ==
    NewEvent(e.window_id, e.tab_id, e.type, e.title, e.url, e.ts)

\* `local_${Date.now()}_${Math.random()...}`: a fresh identifier.  The code
\* only compares local ids for equality, so a fresh id is named by who drew
\* it (the store or the handler) and for which event.
generateLocalId(ts) == <<"store", ts>>
handlerLocalId(ts) == <<"queue", ts>>

LocalIds(events) == {events[i].localId : i \in 1..Len(events)}
Stamps(events) == {events[i].ts : i \in 1..Len(events)}

\* eventSchema of the ingestion endpoint (Joi: a required string is not empty)
eventSchema(e) ==
    /\ e.type \in {"open", "update", "activate", "close"}
    /\ e.title # "" /\ Len(e.title) <= maxTitleLength
    /\ e.url # "" /\ Len(e.url) <= maxUrlLength

(* ------------------------------------------------------------------ *)
(* StorageManager: the stored blob and the methods' effect on it       *)
(* ------------------------------------------------------------------ *)
getDefaultData ==
    [events |-> <<>>, tabInfo |-> <<>>, config |-> "default",
     lastSync |-> NULL, authToken |-> NULL]

\* array.slice(-n)
SliceFirst(s, n) == IF Len(s) > n THEN SubSeq(s, 1, n) ELSE s
SliceLast(s, n) == IF Len(s) > n THEN SubSeq(s, Len(s) - n + 1, Len(s)) ELSE s

\* obj[key] = value on a JavaScript object
Put(f, k, v) == [x \in DOMAIN f \cup {k} |-> IF x = k THEN v ELSE f[x]]
\* delete obj[key]
Delete(f, k) == [x \in DOMAIN f \ {k} |-> f[x]]

\* storeEvent between its getData and its setData
storeEventDataUnshift(data, event) ==
    [data EXCEPT !.events =
        SliceLast(<<WithLocalId(event, generateLocalId(event.ts))>> \o @,
                  MAX_LOCAL_EVENTS)]
storeEventData(data, event) ==
    LET eventWithId == WithLocalId(event, generateLocalId(event.ts))
        pushed == Append(data.events, eventWithId)
        info == IF event.tab_id # 0 /\ event.url # "" /\ event.title # ""
                THEN Put(data.tabInfo, event.tab_id,
                         [title |-> event.title, url |-> event.url,
                          lastSeen |-> event.ts])
                ELSE data.tabInfo
        kept == IF Len(pushed) > MAX_LOCAL_EVENTS
                THEN SliceLast(pushed, MAX_LOCAL_EVENTS)
                ELSE pushed
    IN  [data EXCEPT !.events = kept, !.tabInfo = info]

\* markEventsSynced between its getData and its setData
FilterKnown(events, localIds) ==
    IF \A id \in localIds : \E k \in 1..Len(events) : events[k].localId = id
    THEN SelectSeq(events, LAMBDA e : e.localId \notin localIds)
    ELSE <<>>
Filter(events, localIds) ==
    SelectSeq(events, LAMBDA e : e.localId \notin localIds)
markEventsSyncedData(data, localIds) ==
    [data EXCEPT !.events = Filter(data.events, localIds),
                 !.lastSync = "date"]

\* removeTabInfo between its getData and its setData
removeTabInfoData(data, tabId) ==
    [data EXCEPT !.tabInfo = Delete(data.tabInfo, tabId)]

\* setAuthToken between its getData and its setData
setAuthTokenData(data, token) == [data EXCEPT !.authToken = token]

\* getTabInfo: data.tabInfo[tabId] || null
NoTabInfo == [title |-> "", url |-> "", lastSeen |-> 0]
getTabInfoNull(data, tabId) == NoTabInfo
getTabInfo(data, tabId) ==
    IF tabId \in DOMAIN data.tabInfo THEN data.tabInfo[tabId] ELSE NoTabInfo

(* ------------------------------------------------------------------ *)
(* State                                                              *)
(* ------------------------------------------------------------------ *)
VARIABLES
    blob,            \* chrome.storage.local[STORAGE_KEY]
    hasStorage,      \* the ApiClient was constructed with a StorageManager
    authToken,       \* ApiClient.authToken
    eventQueue,      \* ApiClient.eventQueue
    syncInProgress,  \* ApiClient.syncInProgress
    now,             \* the clock: the events created since the run began
    handler,         \* the suspended tab-event handlers
    sync,            \* the syncPendingEvents invocations
    auth,            \* the authenticate / logout call in progress
    turnedAway,      \* history: the callers of syncPendingEvents that found
                     \* a sync in flight
    refused,         \* history: a batch sent with the credential the client
                     \* holds was answered with 401
    pg,              \* the rows of the events table of PostgreSQL
    mock,            \* MockDatabase.events
    request,         \* the POST /events/batch request being processed
    redaction,       \* a url and what redactSensitiveUrl made of it
    api,             \* the API server: its environment and its last answer
    scorer           \* the clustering scorer: the session it extends

\* the ingestion endpoint and its databases
server == <<pg, mock, request>>
\* the API server's authentication and the clustering scorer
others == <<api, scorer>>

vars == <<blob, hasStorage, authToken, eventQueue, syncInProgress, now,
          handler, sync, auth, turnedAway, refused, server, redaction, others>>

NoEvent == NewEvent(0, 0, "none", "", "", 0)

HandlerIdle ==
    [pc |-> "idle", tabId |-> 0, windowId |-> 0, info |-> NoTabInfo,
     event |-> NoEvent, data |-> getDefaultData]

SyncIdle ==
    [pc |-> "idle", storedEvents |-> <<>>, allEvents |-> <<>>, i |-> 0,
     syncedLocalIds |-> <<>>, data |-> getDefaultData, response |-> "none",
     sent |-> <<>>, accepted |-> {}]

AuthIdle == [pc |-> "idle", token |-> NULL, data |-> getDefaultData]

\* no url was given to redactSensitiveUrl
NoRedaction == [url |-> "", once |-> "", twice |-> "", pass |-> 0]

\* process.env of the API server; a variable that is not set is NULL
Configured == [JWT_SECRET |-> "jwt", REFRESH_TOKEN_SECRET |-> "refresh"]
\* the server accepts requests; status is that of its last answer to a
\* request that needed a secret, detected tells that a request handler
\* found a secret missing, userId is req.userId of the request that
\* authMiddleware let through
ApiServing(env) ==
    [state |-> "serving", env |-> env, status |-> 0, detected |-> FALSE,
     userId |-> NULL]

\* the signals of a snapshot compared with the current session
NoSignals ==
    [semantic_shift_below_0_6 |-> FALSE, majority_shift_over_50pct |-> FALSE,
     idle_gap_over_20m |-> FALSE, new_window_boundary |-> FALSE,
     persistence_over_2_snapshots_or_3_tabs |-> FALSE]
\* no snapshot was scored and the user has no session
NoSession ==
    [sessions |-> 0, mode |-> "loose", scoredIn |-> "none",
     signals |-> NoSignals, total |-> 0, decision |-> "none"]

\* no request is being processed; no counts the requests received
\* tx holds the rows of the open transaction, rolledBack counts the rows
\* a ROLLBACK of this request has discarded
RequestIdle ==
    [pc |-> "idle", no |-> 0, body |-> <<>>, k |-> 0, tx |-> <<>>,
     rolledBack |-> 0, status |-> 0]

\* the state after n tab events were handled one after the other while
\* signed out: each is stored and queued, none is sent.  The clock counts
\* from the start of the run, so these events carry the times 1-n .. 0.
EventNo(k) ==
    NewEvent(Tab1.windowId, Tab1.id, "update", Tab1.title,
             redactSensitiveUrl(Tab1.url), k)
StoredAfter(n) ==
    [i \in 1..n |-> WithLocalId(EventNo(i - n), generateLocalId(i - n))]
QueuedAfter(n) ==
    [i \in 1..n |-> WithLocalId(EventNo(i - n), handlerLocalId(i - n))]
DataAfter(n) ==
    [getDefaultData EXCEPT
        !.events = SliceLast(StoredAfter(n), MAX_LOCAL_EVENTS),
        !.tabInfo = IF n = 0 THEN <<>>
                    ELSE Put(<<>>, Tab1.id,
                             [title |-> Tab1.title,
                              url |-> redactSensitiveUrl(Tab1.url),
                              lastSeen |-> 0])]

InitAfter(n, wired, clock) ==
    /\ blob = DataAfter(n)
    /\ hasStorage = wired
    /\ authToken = NULL
    /\ eventQueue = QueuedAfter(n)
    /\ syncInProgress = FALSE
    /\ now = clock
    /\ handler = [h \in Handlers |-> HandlerIdle]
    /\ sync = [c \in SyncCalls |-> SyncIdle]
    /\ auth = AuthIdle
    /\ turnedAway = {}
    /\ refused = FALSE
    /\ pg = <<>>
    /\ mock = <<>>
    /\ request = RequestIdle
    /\ redaction = NoRedaction
    /\ api = ApiServing(Configured)
    /\ scorer = NoSession

\* new TabMemoryBackground() and initialize(): new ApiClient() gets no
\* StorageManager
Init == InitAfter(0, FALSE, 0)

(* ------------------------------------------------------------------ *)
(* ApiClient.syncPendingEvents                                        *)
(* ------------------------------------------------------------------ *)
Min(a, b) == IF a <= b THEN a ELSE b
Range(f) == {f[x] : x \in DOMAIN f}

\* allEvents.slice(i, i + batchSize)
BatchFromStart(s) == SubSeq(s.allEvents, 1, Min(batchSize, Len(s.allEvents)))
Batch(s) == SubSeq(s.allEvents, s.i + 1, Min(s.i + batchSize, Len(s.allEvents)))

\* eventQueue.filter(event => !syncedLocalIds.includes(event.localId))
FilterQueueAll(q, syncedLocalIds) == <<>>
FilterQueue(q, syncedLocalIds) == Filter(q, Range(syncedLocalIds))

\* what a segment of syncPendingEvents leaves behind: the invocation's own
\* state, the queue and the in-flight flag
Continue(s, q) == [s |-> s, q |-> q, flag |-> TRUE]
\* the finally block
ReturnFlagSet(q) == [s |-> SyncIdle, q |-> q, flag |-> TRUE]
Return(q) == [s |-> SyncIdle, q |-> q, flag |-> FALSE]

\* batch.map(({ localId, ...event }) => event)
Body(batch) == [k \in 1..Len(batch) |-> WithoutLocalId(batch[k])]

\* this.post('/events/batch', ...) for the batch at s.i: fetch is issued;
\* sent keeps the bodies of the requests of the call
Post(s) == [s EXCEPT !.pc = "wait", !.response = "request",
                     !.sent = Append(@, Body(Batch(s)))]

\* lines 69-85: allEvents, the empty check and the first request
CollectNoEmptyCheck(s, storedEvents, q) ==
    Continue(Post([s EXCEPT !.storedEvents = <<>>,
                            !.allEvents = storedEvents \o q, !.i = 0]), q)
Collect(s, storedEvents, q) ==
    LET allEvents == storedEvents \o q
    IN  IF Len(allEvents) = 0
        THEN Return(q)
        ELSE Continue(Post([s EXCEPT !.storedEvents = <<>>,
                                     !.allEvents = allEvents, !.i = 0]), q)

\* lines 96-110: after the loop
AfterLoop(s, q, data, wired) ==
    IF Len(s.syncedLocalIds) > 0 /\ wired
    THEN Continue([s EXCEPT !.pc = "mark", !.response = "none",
                            !.data = data], q)
    ELSE Return(FilterQueue(q, s.syncedLocalIds))

\* lines 56-67: the guard, the flag and the read of the store
InFlightGuardNoFlag(inProgress, token) == token = NULL
InFlightGuardNoToken(inProgress, token) == inProgress
InFlightGuard(inProgress, token) == inProgress \/ token = NULL
BeginNothing(q, data, wired) == Return(q)
Begin(q, data, wired) ==
    IF wired
    THEN Continue([SyncIdle EXCEPT !.pc = "read",
                                   !.storedEvents = data.events], q)
    ELSE Collect(SyncIdle, <<>>, q)

IdleCalls == {c \in SyncCalls : sync[c].pc = "idle"}
InFlight == SyncCalls \ IdleCalls

Apply(c, out) ==
    /\ sync' = [sync EXCEPT ![c] = out.s]
    /\ eventQueue' = out.q
    /\ syncInProgress' = out.flag

\* a call of syncPendingEvents with the queue holding q
syncPendingEvents(q, caller) ==
    IF InFlightGuard(syncInProgress, authToken) \/ IdleCalls = {}
    THEN /\ eventQueue' = q
         /\ UNCHANGED <<sync, syncInProgress>>
         /\ turnedAway' = IF syncInProgress THEN turnedAway \cup {caller}
                                              ELSE turnedAway
    ELSE LET c == CHOOSE x \in IdleCalls : \A y \in IdleCalls : x <= y
         IN  /\ Apply(c, Begin(q, blob, hasStorage))
             /\ UNCHANGED turnedAway

\* setupPeriodicSync: the interval fires
TimerSync ==
    /\ syncPendingEvents(eventQueue, "timer")
    /\ UNCHANGED <<blob, hasStorage, authToken, now, handler, auth, refused,
                   server, redaction, others>>

\* getPendingEvents has resolved
SyncCollect(c) ==
    /\ sync[c].pc = "read"
    /\ Apply(c, Collect(sync[c], sync[c].storedEvents, eventQueue))
    /\ UNCHANGED <<blob, hasStorage, authToken, now, handler, auth, turnedAway,
                   refused, server, redaction, others>>

\* POST /events/batch: validateRequest(batchEventsSchema), then the inserts
BatchValidSizeOnly(batch) == Len(batch) >= 1 /\ Len(batch) <= maxBatchEvents
BatchValid(batch) ==
    /\ Len(batch) >= 1 /\ Len(batch) <= maxBatchEvents
    /\ \A k \in 1..Len(batch) : eventSchema(batch[k])

ServerAccept(c) ==
    /\ sync[c].pc = "wait" /\ sync[c].response = "request"
    /\ BatchValid(Batch(sync[c]))
    /\ sync' = [sync EXCEPT ![c].response = "ok",
                            ![c].accepted = @ \cup LocalIds(Batch(sync[c]))]
    /\ UNCHANGED <<blob, hasStorage, authToken, eventQueue, syncInProgress,
                   now, handler, auth, turnedAway, refused, server,
                   redaction, others>>

\* a response that is not 2xx, other than 401: 400 from validation, 500
ServerReject(c) ==
    /\ sync[c].pc = "wait" /\ sync[c].response = "request"
    /\ sync' = [sync EXCEPT ![c].response = "error"]
    /\ UNCHANGED <<blob, hasStorage, authToken, eventQueue, syncInProgress,
                   now, handler, auth, turnedAway, refused, server,
                   redaction, others>>

\* authMiddleware: the token is missing, invalid or expired, 401
ServerUnauthorized(c) ==
    /\ sync[c].pc = "wait" /\ sync[c].response = "request"
    /\ sync' = [sync EXCEPT ![c].response = "unauthorized"]
    /\ UNCHANGED <<blob, hasStorage, authToken, eventQueue, syncInProgress,
                   now, handler, auth, turnedAway, refused, server,
                   redaction, others>>

\* lines 86-94 and the loop head: the response has arrived
ReceivedAnyResponse(s, success) ==
    [s EXCEPT !.syncedLocalIds =
                  @ \o [k \in 1..Len(Batch(s)) |-> Batch(s)[k].localId],
              !.i = @ + batchSize]
Received(s, success) ==
    [s EXCEPT !.syncedLocalIds =
                  IF success
                  THEN @ \o [k \in 1..Len(Batch(s)) |-> Batch(s)[k].localId]
                  ELSE @,
              !.i = @ + batchSize]

AfterResponse(s, q, data, wired) ==
    IF s.i < Len(s.allEvents)
    THEN Continue(Post(s), q)
    ELSE AfterLoop(s, q, data, wired)

SyncReceive(c) ==
    /\ sync[c].pc = "wait"
    /\ sync[c].response \in {"ok", "error", "unauthorized"}
    /\ Apply(c, AfterResponse(Received(sync[c], sync[c].response = "ok"),
                              eventQueue, blob, hasStorage))
    /\ refused' = (refused \/ sync[c].response = "unauthorized")
    /\ UNCHANGED <<blob, hasStorage, authToken, now, handler, auth, turnedAway,
                   server, redaction, others>>

\* fetch rejects (the request or the response is lost): catch, break
NetworkError(c) ==
    /\ sync[c].pc = "wait"
    /\ Apply(c, AfterLoop(sync[c], eventQueue, blob, hasStorage))
    /\ UNCHANGED <<blob, hasStorage, authToken, now, handler, auth, turnedAway,
                   refused, server, redaction, others>>

\* markEventsSynced: getData has resolved, setData
SyncMark(c) ==
    /\ sync[c].pc = "mark"
    /\ blob' = markEventsSyncedData(sync[c].data, Range(sync[c].syncedLocalIds))
    /\ sync' = [sync EXCEPT ![c].pc = "finish", ![c].data = getDefaultData]
    /\ UNCHANGED <<hasStorage, authToken, eventQueue, syncInProgress, now,
                   handler, auth, turnedAway, refused, server,
                   redaction, others>>

\* lines 101-110: markEventsSynced has resolved
SyncFinish(c) ==
    /\ sync[c].pc = "finish"
    /\ Apply(c, Return(FilterQueue(eventQueue, sync[c].syncedLocalIds)))
    /\ UNCHANGED <<blob, hasStorage, authToken, now, handler, auth, turnedAway,
                   refused, server, redaction, others>>

(* ------------------------------------------------------------------ *)
(* TabEventHandler                                                    *)
(* ------------------------------------------------------------------ *)
\* events created or about to be created (a close event is created after
\* getTabInfo has resolved)
Created == now + Cardinality({h \in Handlers : handler[h].pc = "close"})

\* value || fallback on strings
OrElseNothing(value, fallback) == value
OrElse(value, fallback) == IF value # "" THEN value ELSE fallback

\* handleTabEvent up to the getData of storeEvent
handleTabEvent(h, tab, eventType) ==
    /\ handler[h].pc = "idle"
    /\ Created < MaxEvents
    /\ IF tab.id = 0 \/ tab.url = "" \/ tab.windowId = 0
          \/ shouldIgnoreUrl(tab.url)
       THEN UNCHANGED <<now, handler>>
       ELSE /\ now' = now + 1
            /\ handler' = [handler EXCEPT ![h] =
                 [HandlerIdle EXCEPT
                    !.pc = "store",
                    !.event = NewEvent(tab.windowId, tab.id, eventType,
                                  OrElse(tab.title, "Untitled"),
                                  redactSensitiveUrl(tab.url), now + 1),
                    !.data = blob]]
    /\ UNCHANGED <<blob, hasStorage, authToken, eventQueue, syncInProgress,
                   sync, auth, turnedAway, refused, server, redaction, others>>

\* handleWindowFocus: chrome.tabs.query has resolved with the active tab
handleWindowFocus(h, tab) == handleTabEvent(h, tab, "activate")

\* handleTabClose up to the getData of getTabInfo
handleTabClose(h, tabId, windowId) ==
    /\ handler[h].pc = "idle"
    /\ Created < MaxEvents
    /\ handler' = [handler EXCEPT ![h] =
         [HandlerIdle EXCEPT !.pc = "close", !.tabId = tabId,
                             !.windowId = windowId,
                             !.info = getTabInfo(blob, tabId)]]
    /\ UNCHANGED <<blob, hasStorage, authToken, eventQueue, syncInProgress,
                   now, sync, auth, turnedAway, refused, server,
                   redaction, others>>

\* handleTabClose: getTabInfo has resolved; the event, the getData of
\* storeEvent
CloseEvent(h) ==
    /\ handler[h].pc = "close"
    /\ now' = now + 1
    /\ handler' = [handler EXCEPT ![h] =
         [handler[h] EXCEPT
            !.pc = "store",
            !.event = NewEvent(handler[h].windowId, handler[h].tabId, "close",
                          OrElse(handler[h].info.title, "Closed Tab"),
                          handler[h].info.url, now + 1),
            !.data = blob]]
    /\ UNCHANGED <<blob, hasStorage, authToken, eventQueue, syncInProgress,
                   sync, auth, turnedAway, refused, server, redaction, others>>

\* storeEvent: getData has resolved; lines 39-62
StoreEventSet(h) ==
    /\ handler[h].pc = "store"
    /\ blob' = storeEventData(handler[h].data, handler[h].event)
    /\ handler' = [handler EXCEPT ![h] =
         [handler[h] EXCEPT
            !.pc = IF handler[h].event.type = "close" THEN "remove"
                                                       ELSE "queue",
            !.data = getDefaultData]]
    /\ UNCHANGED <<hasStorage, authToken, eventQueue, syncInProgress, now,
                   sync, auth, turnedAway, refused, server, redaction, others>>

\* handleTabClose: storeEvent has resolved; the getData of removeTabInfo
RemoveTabInfoGet(h) ==
    /\ handler[h].pc = "remove"
    /\ handler' = [handler EXCEPT ![h] =
         [handler[h] EXCEPT !.pc = "remove_set", !.data = blob]]
    /\ UNCHANGED <<blob, hasStorage, authToken, eventQueue, syncInProgress,
                   now, sync, auth, turnedAway, refused, server,
                   redaction, others>>

\* removeTabInfo: getData has resolved; delete and setData
RemoveTabInfoSet(h) ==
    /\ handler[h].pc = "remove_set"
    /\ blob' = removeTabInfoData(handler[h].data, handler[h].tabId)
    /\ handler' = [handler EXCEPT ![h] =
         [handler[h] EXCEPT !.pc = "queue", !.data = getDefaultData]]
    /\ UNCHANGED <<hasStorage, authToken, eventQueue, syncInProgress, now,
                   sync, auth, turnedAway, refused, server, redaction, others>>

\* queueEvent calls syncPendingEvents without await (line 50) and returns;
\* the handler, which does not await queueEvent either, has returned
AfterQueueEventAwaited(called) ==
    IF called THEN [HandlerIdle EXCEPT !.pc = "sync"] ELSE HandlerIdle
AfterQueueEvent(called) == HandlerIdle

\* the handler after its storage calls: queueEvent, which may start a sync
queueEvent(h) ==
    /\ handler[h].pc = "queue"
    /\ LET event == handler[h].event
           q == Append(eventQueue,
                       WithLocalId(event, handlerLocalId(event.ts)))
       IN  IF Len(q) >= autoSyncThreshold
           THEN syncPendingEvents(q, "queue")
           ELSE /\ eventQueue' = q
                /\ UNCHANGED <<sync, syncInProgress, turnedAway>>
    /\ handler' = [handler EXCEPT ![h] =
         AfterQueueEvent(Len(eventQueue) + 1 >= autoSyncThreshold)]
    /\ UNCHANGED <<blob, hasStorage, authToken, now, auth, refused,
                   server, redaction, others>>

(* ------------------------------------------------------------------ *)
(* ApiClient.authenticate and logout                                  *)
(* ------------------------------------------------------------------ *)
\* authenticate: the login response has arrived with success, its body an
\* AuthToken as post<AuthToken> declares it
authenticate ==
    /\ auth.pc = "idle"
    /\ authToken' = Token
    /\ auth' = IF hasStorage
               THEN [pc |-> "login", token |-> Token, data |-> blob]
               ELSE AuthIdle
    /\ refused' = FALSE
    /\ UNCHANGED <<blob, hasStorage, eventQueue, syncInProgress, now,
                   handler, sync, turnedAway, server, redaction, others>>

logout ==
    /\ auth.pc = "idle"
    /\ IF authToken # NULL /\ hasStorage
       THEN /\ auth' = [pc |-> "logout", token |-> NULL, data |-> blob]
            /\ UNCHANGED authToken
       ELSE /\ authToken' = NULL
            /\ UNCHANGED auth
    /\ UNCHANGED <<blob, hasStorage, eventQueue, syncInProgress, now,
                   handler, sync, turnedAway, refused, server,
                   redaction, others>>

\* setAuthToken: getData has resolved; setData
SetAuthTokenSet ==
    /\ auth.pc \in {"login", "logout"}
    /\ blob' = setAuthTokenData(auth.data, auth.token)
    /\ auth' = IF auth.pc = "login" THEN AuthIdle
               ELSE [AuthIdle EXCEPT !.pc = "clear"]
    /\ UNCHANGED <<hasStorage, authToken, eventQueue, syncInProgress, now,
                   handler, sync, turnedAway, refused, server,
                   redaction, others>>

\* logout: setAuthToken(null) has resolved
LogoutClear ==
    /\ auth.pc = "clear"
    /\ authToken' = NULL
    /\ auth' = AuthIdle
    /\ UNCHANGED <<blob, hasStorage, eventQueue, syncInProgress, now,
                   handler, sync, turnedAway, refused, server,
                   redaction, others>>

(* ------------------------------------------------------------------ *)
(* The extension                                                      *)
(* ------------------------------------------------------------------ *)
\* the extension as the background script wires it
Next ==
    \/ \E h \in Handlers, tab \in BrowserTabs, eventType \in TabEventTypes :
          handleTabEvent(h, tab, eventType)
    \/ \E h \in Handlers, tabId \in TabIds : handleTabClose(h, tabId, 1)
    \/ \E h \in Handlers : CloseEvent(h)
    \/ \E h \in Handlers : StoreEventSet(h)
    \/ \E h \in Handlers : RemoveTabInfoGet(h)
    \/ \E h \in Handlers : RemoveTabInfoSet(h)
    \/ \E h \in Handlers : queueEvent(h)
    \/ authenticate
    \/ logout
    \/ TimerSync
    \/ \E c \in SyncCalls : ServerAccept(c)
    \/ \E c \in SyncCalls : ServerReject(c)
    \/ \E c \in SyncCalls : SyncReceive(c)
    \/ \E c \in SyncCalls : NetworkError(c)

Spec == Init /\ [][Next]_vars

(* ------------------------------------------------------------------ *)
(* A client that signs in, once, with a backlog of several batches    *)
(* ------------------------------------------------------------------ *)
\* events captured while signed out, before the run
Backlog == 51
\* events created during such a run
BacklogEvents == 1

InitBacklog ==
    \E wired \in BOOLEAN : InitAfter(Backlog, wired, MaxEvents - BacklogEvents)

NextBacklog ==
    \/ \E h \in Handlers, tab \in BrowserTabs, eventType \in TabEventTypes :
          handleTabEvent(h, tab, eventType)
    \/ \E h \in Handlers : StoreEventSet(h)
    \/ \E h \in Handlers : queueEvent(h)
    \/ authToken = NULL /\ authenticate
    \/ SetAuthTokenSet
    \/ TimerSync
    \/ \E c \in SyncCalls : SyncCollect(c)
    \/ \E c \in SyncCalls : ServerAccept(c)
    \/ \E c \in SyncCalls : ServerReject(c)
    \/ \E c \in SyncCalls : SyncReceive(c)
    \/ \E c \in SyncCalls : NetworkError(c)
    \/ \E c \in SyncCalls : SyncMark(c)
    \/ \E c \in SyncCalls : SyncFinish(c)

SpecBacklog == InitBacklog /\ [][NextBacklog]_vars

(* ------------------------------------------------------------------ *)
(* The sync engine                                                    *)
(* ------------------------------------------------------------------ *)

\* C1: at most one syncPendingEvents call is in flight at any time, and a
\* call that begins while the in-flight flag is set returns at once: it
\* sends no request and leaves the store and the queue as they are (the
\* queue keeps the event that queueEvent has just pushed).
C1_OneSyncInFlight ==
    [][ /\ Cardinality(InFlight') <= 1
        /\ syncInProgress' = (InFlight' # {})
        /\ syncInProgress =>
             /\ \A c \in SyncCalls :
                   sync[c].pc = "idle" => sync'[c].pc = "idle"
             /\ TimerSync => UNCHANGED <<sync, eventQueue, blob>>
             /\ \A h \in Handlers :
                   queueEvent(h) =>
                      /\ UNCHANGED <<sync, blob>>
                      /\ SubSeq(eventQueue', 1, Len(eventQueue)) = eventQueue
      ]_vars

\* the periodic timer and a threshold-triggered call have both found a
\* sync in flight, and one is in flight
C1_Witness == syncInProgress /\ turnedAway = {"timer", "queue"}

\* C2: once the send of a batch has failed, by a network error or by a
\* response that is not a success, the call sends no later batch.
C2_NoSendAfterFailure ==
    [][ \A c \in SyncCalls :
          sync[c].pc = "wait" /\ sync[c].response = "error"
             => Len(sync'[c].sent) <= Len(sync[c].sent) ]_vars

\* C3: the local ids a call has recorded as synced are those of a prefix of
\* the pending sequence it read at its start.
C3_AcknowledgedPrefix ==
    \A c \in SyncCalls :
       /\ Len(sync[c].syncedLocalIds) <= Len(sync[c].allEvents)
       /\ \A j \in 1..Len(sync[c].syncedLocalIds) :
             sync[c].syncedLocalIds[j] = sync[c].allEvents[j].localId

\* C4: a call records a local id as synced, passes it to markEventsSynced
\* and filters it out of the queue only if the ingestion endpoint answered
\* the batch holding it with success during that call.
C4_AcknowledgedOnlyAccepted ==
    [][ \A c \in SyncCalls :
          /\ Range(sync'[c].syncedLocalIds) \subseteq sync'[c].accepted
          /\ SyncMark(c) =>
                (LocalIds(sync[c].data.events) \ LocalIds(blob'.events))
                    \subseteq sync[c].accepted
          /\ SyncFinish(c) \/ SyncReceive(c) \/ NetworkError(c) =>
                (LocalIds(eventQueue) \ LocalIds(eventQueue'))
                    \subseteq sync[c].accepted
      ]_vars

\* a call is about to filter the queue after it removed the events of an
\* accepted batch from the store, another batch of the call having failed
C4_Witness ==
    \E c \in SyncCalls :
       /\ sync[c].pc = "finish"
       /\ Len(sync[c].syncedLocalIds) > 0
       /\ Len(sync[c].syncedLocalIds) < Len(sync[c].allEvents)
       /\ Len(blob.events) < Backlog

(* ------------------------------------------------------------------ *)
(* The extension as wired                                             *)
(* ------------------------------------------------------------------ *)
\* the events whose storeEvent call has returned
StoreDone ==
    {t \in 1..now :
        \A h \in Handlers :
           ~(handler[h].pc = "store" /\ handler[h].event.ts = t)}

\* C5: when a syncPendingEvents call returns, no event of a batch the
\* server accepted during the call is left in the Local Event Store.
C5_AcceptedLeaveStore ==
    [][ \A c \in SyncCalls :
          sync[c].pc # "idle" /\ sync'[c].pc = "idle"
             => \A id \in sync[c].accepted :
                   id[2] \notin Stamps(blob'.events) ]_vars

\* C6: the store operations are atomic with respect to each other; in
\* particular every event whose storeEvent call has returned is in the
\* store (in this specification nothing acknowledges or evicts events).
C6_NoLostUpdate == \A t \in StoreDone : t \in Stamps(blob.events)

\* C10: the handlers put no event that the ingestion endpoint's validation
\* rejects into the Local Event Store or the sync queue.
C10_OnlyValidEvents ==
    /\ \A k \in 1..Len(blob.events) : eventSchema(blob.events[k])
    /\ \A k \in 1..Len(eventQueue) : eventSchema(eventQueue[k])

(* ------------------------------------------------------------------ *)
(* The StorageManager called sequentially, near its capacity          *)
(* ------------------------------------------------------------------ *)
\* storeEvent calls made one after the other before the run
StoreBacklog == 999

InitStore == InitAfter(StoreBacklog, FALSE, 0)

\* storeEvent, from its call to its return
storeEvent(event) ==
    /\ now < MaxEvents
    /\ now' = now + 1
    /\ blob' = storeEventData(blob, event)
    /\ UNCHANGED <<hasStorage, authToken, eventQueue, syncInProgress,
                   handler, sync, auth, turnedAway, refused,
                   server, redaction, others>>

\* markEventsSynced, from its call to its return
markEventsSynced(localIds) ==
    /\ blob' = markEventsSyncedData(blob, localIds)
    /\ UNCHANGED <<hasStorage, authToken, eventQueue, syncInProgress, now,
                   handler, sync, auth, turnedAway, refused,
                   server, redaction, others>>

\* the ids tried: of the two oldest events of the backlog, of its newest
\* event, of the first event of the run and of no event at all
AckCandidates ==
    {generateLocalId(1 - StoreBacklog), generateLocalId(0),
     generateLocalId(1), generateLocalId(MaxEvents + 1)}

NextStore ==
    \/ \E tabId \in TabIds :
          storeEvent(NewEvent(1, tabId, "update", "A",
                              redactSensitiveUrl(Tab1.url), now + 1))
    \/ \E localIds \in SUBSET AckCandidates : markEventsSynced(localIds)

SpecStore == InitStore /\ [][NextStore]_vars

\* storeEvent calls made so far
Appended == StoreBacklog + now

\* C7: after N > 1000 storeEvent calls in a row with no acknowledgement
\* (lastSync is still unset) the store holds exactly the 1000 most recent
\* events, oldest first; and the store never holds more than 1000 events.
C7_FifoEviction ==
    /\ Len(blob.events) <= MAX_LOCAL_EVENTS
    /\ blob.lastSync = NULL /\ Appended > MAX_LOCAL_EVENTS =>
          /\ Len(blob.events) = MAX_LOCAL_EVENTS
          /\ \A k \in 1..MAX_LOCAL_EVENTS :
                blob.events[k].ts = now - MAX_LOCAL_EVENTS + k

C7_Witness == blob.lastSync = NULL /\ Appended > MAX_LOCAL_EVENTS

\* C8: the store keeps its events in the order they were appended, and an
\* event leaves it only by being acknowledged or by being among the oldest
\* when a storeEvent call exceeds the capacity; the events that remain are
\* never reordered.
C8_InsertionOrder ==
    [][ /\ \A k \in 1..(Len(blob'.events) - 1) :
              blob'.events[k].ts < blob'.events[k + 1].ts
        /\ \A localIds \in SUBSET AckCandidates :
              markEventsSynced(localIds) =>
                 Stamps(blob'.events) =
                    {t \in Stamps(blob.events) :
                        generateLocalId(t) \notin localIds}
        /\ now' = now + 1 =>
              /\ Stamps(blob'.events) \subseteq Stamps(blob.events) \cup {now'}
              /\ now' \in Stamps(blob'.events)
              /\ \A t \in Stamps(blob.events) \ Stamps(blob'.events) :
                    /\ Len(blob.events) = MAX_LOCAL_EVENTS
                    /\ t = blob.events[1].ts
      ]_vars

\* an event was acknowledged and the second oldest event of the backlog,
\* whose id is never acknowledged, was evicted
C8_Witness ==
    /\ blob.lastSync # NULL
    /\ generateLocalId(0) \notin LocalIds(blob.events)
    /\ Len(blob.events) > 0
    /\ blob.events[1].ts > 2 - StoreBacklog

(* ------------------------------------------------------------------ *)
(* The extension as wired, with the event loop, the timer and the      *)
(* network making progress                                            *)
(* ------------------------------------------------------------------ *)
NextLive ==
    \/ \E h \in Handlers, tab \in BrowserTabs, eventType \in TabEventTypes :
          handleTabEvent(h, tab, eventType)
    \/ \E h \in Handlers : StoreEventSet(h)
    \/ \E h \in Handlers : queueEvent(h)
    \/ authToken = NULL /\ authenticate
    \/ TimerSync
    \/ \E c \in SyncCalls : ServerAccept(c)
    \/ \E c \in SyncCalls : ServerReject(c)
    \/ \E c \in SyncCalls : SyncReceive(c)
    \/ \E c \in SyncCalls : NetworkError(c)

\* a suspended handler or sync call is resumed when its promise settles,
\* setInterval keeps firing, and every fetch settles
Settles ==
    \E c \in SyncCalls : ServerAccept(c) \/ ServerReject(c) \/ NetworkError(c)
Fairness ==
    /\ WF_vars(\E h \in Handlers : StoreEventSet(h) \/ queueEvent(h))
    /\ WF_vars(TimerSync)
    /\ WF_vars(\E c \in SyncCalls : SyncReceive(c))
    /\ WF_vars(Settles)

SpecLive == Init /\ [][NextLive]_vars /\ Fairness

SendFails == \E c \in SyncCalls : ServerReject(c) \/ NetworkError(c)
PendingStamps == Stamps(blob.events) \cup Stamps(eventQueue)

\* C9: if from some point on a credential is present and no batch send
\* fails, then every event that is pending, in the Local Event Store or in
\* the queue, is eventually acknowledged and pending no more (the run stays
\* far below the capacity of the store, so nothing is evicted).
C9_EventuallyDelivered ==
    (<>[](authToken # NULL) /\ <>[][~SendFails]_vars)
       => \A t \in 1..MaxEvents :
             [](t \in PendingStamps => <>(t \notin PendingStamps))

(* ------------------------------------------------------------------ *)
(* The extension as wired, served by an endpoint that may refuse the   *)
(* credential                                                         *)
(* ------------------------------------------------------------------ *)
NextAuth ==
    \/ \E h \in Handlers, tab \in BrowserTabs, eventType \in TabEventTypes :
          handleTabEvent(h, tab, eventType)
    \/ \E h \in Handlers : StoreEventSet(h)
    \/ \E h \in Handlers : queueEvent(h)
    \/ authenticate
    \/ TimerSync
    \/ \E c \in SyncCalls : ServerAccept(c)
    \/ \E c \in SyncCalls : ServerUnauthorized(c)
    \/ \E c \in SyncCalls : SyncReceive(c)

SpecAuth == Init /\ [][NextAuth]_vars

\* C11: once the ingestion endpoint has answered a batch with an
\* authentication failure, the client sends no further batch, in that call
\* or in a later cycle, until it has authenticated again.
C11_StopsOnAuthFailure ==
    [][ refused' =>
           \A c \in SyncCalls : Len(sync'[c].sent) <= Len(sync[c].sent) ]_vars

(* ------------------------------------------------------------------ *)
(* The sync engine without a credential                               *)
(* ------------------------------------------------------------------ *)
\* C12: a syncPendingEvents call made while the ApiClient holds no
\* credential returns at once: no request is sent, the in-flight flag is
\* not set, and the queue and the Local Event Store stay as they are (the
\* queue keeps the event that queueEvent has just pushed).
C12_NoCredentialNoSync ==
    [][ authToken = NULL =>
           /\ TimerSync => UNCHANGED <<sync, syncInProgress, eventQueue, blob>>
           /\ \A h \in Handlers :
                 queueEvent(h) =>
                    /\ UNCHANGED <<sync, syncInProgress, blob>>
                    /\ Len(eventQueue') = Len(eventQueue) + 1
                    /\ SubSeq(eventQueue', 1, Len(eventQueue)) = eventQueue
      ]_vars

\* queueEvent has called syncPendingEvents, the queue being over the
\* threshold, before any sign-in
C12_Witness ==
    /\ authToken = NULL /\ ~syncInProgress
    /\ Len(eventQueue) > Backlog
    /\ Len(eventQueue) >= autoSyncThreshold

(* ------------------------------------------------------------------ *)
(* The ingestion endpoint: POST /events/batch                         *)
(* ------------------------------------------------------------------ *)
\* requests the endpoint receives in a run
MaxRequests == 2
\* events of the longest well-formed body sent to it
MaxBody == 2

client ==
    <<blob, hasStorage, authToken, eventQueue, syncInProgress, now, handler,
      sync, auth, turnedAway, refused>>

\* the event handleTabClose builds for a tab without a snapshot
BadEvent == NewEvent(1, 2, "close", "Closed Tab", "", 0)
ValidBody(n) == [i \in 1..n |-> EventNo(i)]
\* the bodies sent: well-formed ones, the empty one, ones with a malformed
\* event at some position, and one with more events than the schema allows
Bodies ==
    {ValidBody(n) : n \in 0..MaxBody}
       \cup UNION {{[ValidBody(n) EXCEPT ![j] = BadEvent] : j \in 1..n} :
                      n \in 1..MaxBody}
       \cup {ValidBody(maxBatchEvents + 1)}

\* a row of the events table; its id, generated by the database, is named
\* by the request and the position that produced it
Row(no, k, event) == [id |-> <<no, k>>, event |-> event]

\* ROLLBACK: the table keeps its committed rows
RollbackKeeps(rows, tx) == rows \o tx
Rollback(rows, tx) == rows

\* MockDatabase.insertEvent
insertEventUpsert(events, row) ==
    IF \E k \in 1..Len(events) : events[k].event = row.event
    THEN [k \in 1..Len(events) |->
             IF events[k].event = row.event THEN row ELSE events[k]]
    ELSE Append(events, row)
insertEvent(events, row) == Append(events, row)

\* the request arrives: validateRequest(batchEventsSchema)
PostBatch(body) ==
    /\ request.pc \in {"idle", "done"}
    /\ request.no < MaxRequests
    /\ request' = [RequestIdle EXCEPT
                      !.no = request.no + 1,
                      !.body = body,
                      !.pc = IF BatchValid(body) THEN "connect" ELSE "done",
                      !.status = IF BatchValid(body) THEN 0 ELSE 400]
    /\ UNCHANGED <<pg, mock, client, redaction, others>>

\* db.transaction: getClient and BEGIN
PgBegin ==
    /\ request.pc = "connect"
    /\ request' = [request EXCEPT !.pc = "pg"]
    /\ UNCHANGED <<pg, mock, client, redaction, others>>

\* db.transaction: getClient rejects; the outer catch runs the callback on
\* the mock database
PgUnavailable ==
    /\ request.pc = "connect"
    /\ request' = [request EXCEPT !.pc = "mock"]
    /\ UNCHANGED <<pg, mock, client, redaction, others>>

\* the INSERT of the next event, inside the transaction
PgInsert ==
    /\ request.pc = "pg" /\ request.k < Len(request.body)
    /\ request' = [request EXCEPT
                      !.k = @ + 1,
                      !.tx = Append(@, Row(request.no, request.k + 1,
                                           request.body[request.k + 1]))]
    /\ UNCHANGED <<pg, mock, client, redaction, others>>

\* COMMIT, and the response
PgCommit ==
    /\ request.pc = "pg" /\ request.k = Len(request.body)
    /\ pg' = pg \o request.tx
    /\ request' = [request EXCEPT !.pc = "done", !.tx = <<>>, !.status = 200]
    /\ UNCHANGED <<mock, client, redaction, others>>

\* a statement of the transaction fails: ROLLBACK, the error is thrown
\* again and caught by the outer catch, which runs the callback on the
\* mock database
PgError ==
    /\ request.pc = "pg"
    /\ pg' = Rollback(pg, request.tx)
    /\ request' = [request EXCEPT !.pc = "mock", !.k = 0, !.tx = <<>>,
                                  !.rolledBack = Len(request.tx)]
    /\ UNCHANGED <<mock, client, redaction, others>>

\* the callback on the mock database: the insert of the next event, and
\* after the last one the response
MockInsert ==
    /\ request.pc = "mock" /\ request.k < Len(request.body)
    /\ mock' = insertEvent(mock, Row(request.no, request.k + 1,
                                     request.body[request.k + 1]))
    /\ request' = [request EXCEPT
                      !.k = @ + 1,
                      !.pc = IF request.k + 1 = Len(request.body)
                             THEN "done" ELSE "mock",
                      !.status = IF request.k + 1 = Len(request.body)
                                 THEN 200 ELSE 0]
    /\ UNCHANGED <<pg, client, redaction, others>>

NextServer ==
    \/ \E body \in Bodies : PostBatch(body)
    \/ PgBegin
    \/ PgUnavailable
    \/ PgInsert
    \/ PgCommit
    \/ PgError
    \/ MockInsert

SpecServer == Init /\ [][NextServer]_vars

\* the rows of a table that a request has produced
RowsOf(rows, no) == SelectSeq(rows, LAMBDA row : row.id[1] = no)

\* the events of a request that are persisted, in either database
PersistedOf(no) ==
    [k \in 1..Len(RowsOf(pg \o mock, no)) |-> RowsOf(pg \o mock, no)[k].event]

\* C13: once a request has been answered, each database holds either a row
\* for every event of its batch or no row of it, also when a statement of
\* the transaction failed part-way; a batch answered with success is
\* persisted whole and a batch answered with an error not at all.
C13_AllOrNothing ==
    request.pc = "done" =>
       /\ Len(RowsOf(pg, request.no)) \in {0, Len(request.body)}
       /\ Len(RowsOf(mock, request.no)) \in {0, Len(request.body)}
       /\ request.status = 200 => PersistedOf(request.no) = request.body
       /\ request.status # 200 => PersistedOf(request.no) = <<>>

\* a request was answered after an INSERT of its transaction had succeeded
\* and a later statement failed
C13_Witness ==
    /\ request.pc = "done"
    /\ request.rolledBack > 0 /\ request.rolledBack < Len(request.body)

\* C14: a batch with a malformed event, with no event or with more than 100
\* events is answered with 400, and no event of it is ever persisted.
C14_MalformedRejected ==
    (\/ Len(request.body) = 0 /\ request.pc # "idle"
     \/ Len(request.body) > 100
     \/ \E k \in 1..Len(request.body) : ~eventSchema(request.body[k]))
       => /\ request.pc = "done" /\ request.status = 400
          /\ request.tx = <<>>
          /\ PersistedOf(request.no) = <<>>

\* a batch whose second event is malformed was rejected after an earlier
\* batch had been persisted
C14_Witness ==
    /\ request.pc = "done" /\ request.status = 400
    /\ Len(request.body) = 2 /\ eventSchema(request.body[1])
    /\ Len(pg) > 0

\* the batch of the request is one that was persisted before
Resent ==
    \E no \in 1..(request.no - 1) :
       Len(request.body) > 0 /\ PersistedOf(no) = request.body

\* C15: a batch that the endpoint has accepted before is accepted again
\* with success, and no step of the endpoint changes or removes a row that
\* is persisted: rows are only added.
C15_ResendSafe ==
    [][ /\ Len(pg) <= Len(pg') /\ SubSeq(pg', 1, Len(pg)) = pg
        /\ Len(mock) <= Len(mock') /\ SubSeq(mock', 1, Len(mock)) = mock
        /\ Resent' /\ request'.pc = "done" =>
              /\ request'.status = 200
              /\ PersistedOf(request.no)' = request'.body
      ]_vars

\* a batch held by the mock database was sent again and answered
C15_Witness ==
    /\ Resent /\ request.pc = "done"
    /\ Len(RowsOf(mock, request.no)) > 0
    /\ \E no \in 1..(request.no - 1) : Len(RowsOf(mock, no)) > 0

(* ------------------------------------------------------------------ *)
(* The requests of the sync engine                                    *)
(* ------------------------------------------------------------------ *)
RECURSIVE Concat(_)
Concat(bodies) ==
    IF Len(bodies) = 0 THEN <<>> ELSE bodies[1] \o Concat(Tail(bodies))

\* C16: the bodies of the requests a call has sent, joined in the order
\* they were sent, are the beginning of the pending sequence the call read;
\* every request but the last one possible holds 50 events, the last the
\* remainder; and a call that reaches its end with every batch accepted
\* has sent ceil(n / 50) requests for n pending events.
C16_BatchesPartition ==
    \A c \in SyncCalls :
       LET s == sync[c]
           n == Len(s.allEvents)
           requests == (n + 49) \div 50
       IN  s.pc \in {"wait", "mark", "finish"} =>
              /\ Len(s.sent) <= requests
              /\ \A j \in 1..Len(s.sent) :
                    Len(s.sent[j]) = IF j < requests THEN 50
                                     ELSE n - 50 * (requests - 1)
              /\ Concat(s.sent) =
                    [k \in 1..Min(50 * Len(s.sent), n) |->
                        WithoutLocalId(s.allEvents[k])]
              /\ s.pc \in {"mark", "finish"} /\ Len(s.syncedLocalIds) = n
                    => Len(s.sent) = requests

\* a call has sent the pending events of the store and of the queue in
\* three requests, all accepted
C16_Witness ==
    \E c \in SyncCalls :
       /\ sync[c].pc = "mark"
       /\ Len(sync[c].syncedLocalIds) = Len(sync[c].allEvents)
       /\ Len(sync[c].sent) = 3
       /\ Len(sync[c].sent[3]) < 50

\* C17: every request the client sends holds at least 1 and at most 50
\* events, within the endpoint's bound of 100; in particular a call that
\* finds nothing pending sends nothing.
C17_RequestSize ==
    \A c \in SyncCalls :
       \A j \in 1..Len(sync[c].sent) :
          /\ Len(sync[c].sent[j]) >= 1
          /\ Len(sync[c].sent[j]) <= 50
          /\ Len(sync[c].sent[j]) <= 100

\* a call has sent a full batch and waits for the answer to its last
\* batch, which holds the remainder
C17_Witness ==
    \E c \in SyncCalls :
       /\ sync[c].pc = "wait" /\ Len(sync[c].sent) = 2
       /\ Len(sync[c].sent[1]) = 50 /\ Len(sync[c].sent[2]) < 50

(* ------------------------------------------------------------------ *)
(* The tab-event handlers under every kind of notification            *)
(* ------------------------------------------------------------------ *)
NextTabs ==
    \/ \E h \in Handlers, tab \in BrowserTabs, eventType \in EventTypes :
          handleTabEvent(h, tab, eventType)
    \/ \E h \in Handlers, tab \in BrowserTabs : handleWindowFocus(h, tab)
    \/ \E h \in Handlers, tabId \in TabIds : handleTabClose(h, tabId, 1)
    \/ \E h \in Handlers : CloseEvent(h)
    \/ \E h \in Handlers : StoreEventSet(h)
    \/ \E h \in Handlers : RemoveTabInfoGet(h)
    \/ \E h \in Handlers : RemoveTabInfoSet(h)
    \/ \E h \in Handlers : queueEvent(h)

SpecTabs == Init /\ [][NextTabs]_vars

\* C18: no event in the Local Event Store or in the sync queue has a url
\* that begins with one of the ignored prefixes, whatever notifications
\* arrived, the close of a tab included.
C18_NoIgnoredUrl ==
    \A e \in Range(blob.events) \cup Range(eventQueue) :
       \A prefix \in {"chrome://", "chrome-extension://", "edge://", "about:",
                      "moz-extension://", "safari-extension://", "data:",
                      "javascript:"} :
          ~StartsWith(e.url, prefix)

\* the store and the queue hold the close event of a tab whose url was
\* recovered from its snapshot, and an event of each other type is stored
C18_Witness ==
    /\ \E e \in Range(eventQueue) : e.type = "close" /\ e.url # ""
    /\ \E e \in Range(blob.events) : e.type = "close" /\ e.url # ""
    /\ \E e \in Range(blob.events) : e.type \in EventTypes

(* ------------------------------------------------------------------ *)
(* Redaction                                                          *)
(* ------------------------------------------------------------------ *)
\* the query of a url: what lies between the first "?" and the "#"
QueryOf(url) ==
    LET h == IndexOf(url, "#")
        front == IF h = 0 THEN url ELSE SubSeq(url, 1, h - 1)
        q == IndexOf(front, "?")
    IN  IF q = 0 THEN "" ELSE SubSeq(front, q + 1, Len(front))

\* a sensitive query parameter of the url carries a value other than the
\* redaction marker
Exposed(url) ==
    \E pair \in Range(ParseParams(QueryOf(url))) :
       /\ pair.name \in Range(sensitiveParams)
       /\ pair.value # "[REDACTED]"

\* C19: no url in the Local Event Store, in the tab snapshot table, in the
\* queue or in the body of a request that was sent exposes the value of a
\* sensitive query parameter.
C19_UrlsRedacted ==
    /\ \A e \in Range(blob.events) \cup Range(eventQueue) : ~Exposed(e.url)
    /\ \A info \in Range(blob.tabInfo) : ~Exposed(info.url)
    /\ \A c \in SyncCalls :
          \A body \in Range(sync[c].sent) :
             \A e \in Range(body) : ~Exposed(e.url)

\* a request was sent with an update event and with the close event of the
\* same tab, its url recovered from the snapshot, both with a sensitive
\* parameter in the url
C19_Witness ==
    \E c \in SyncCalls :
       \E body \in Range(sync[c].sent) :
          /\ \E e \in Range(body) :
                /\ e.type = "close"
                /\ HasParam(ParseParams(QueryOf(e.url)), "token")
          /\ \E e \in Range(body) :
                /\ e.type = "update"
                /\ HasParam(ParseParams(QueryOf(e.url)), "token")

(* ------------------------------------------------------------------ *)
(* redactSensitiveUrl applied to a url, and to its own result         *)
(* ------------------------------------------------------------------ *)
\* parameters of the longest query tried
MaxParams == 2

\* what precedes the query: urls of pages, of a page of the browser, and a
\* string that new URL() refuses
UrlBases ==
    {"https://a.example/", "https://a.example/p", "chrome://settings/",
     "nourl"}
\* name=value pieces: plain, with a code that decodes to a space or to a
\* reserved character, with a "+", with a percent sign that begins no
\* code, sensitive with and without a value, already redacted, and with a
\* name that differs from a sensitive one by its case
UrlPairs ==
    {"q=1", "q=a%20b", "q=a+b", "q=%5", "code=a%3Db", "token=abc", "token",
     "key=%5BREDACTED%5D", "Token=abc"}
UrlHashes == {"", "#token=abc"}

RECURSIVE Join(_)
Join(pieces) ==
    IF Len(pieces) = 0 THEN ""
    ELSE IF Len(pieces) = 1 THEN pieces[1]
         ELSE pieces[1] \o "&" \o Join(Tail(pieces))

UrlQueries ==
    UNION {{Join(pieces) : pieces \in [1..n -> UrlPairs]} : n \in 0..MaxParams}

Urls ==
    {base \o (IF query = "" THEN "" ELSE "?" \o query) \o hash :
        base \in UrlBases, query \in UrlQueries, hash \in UrlHashes}

InitRedact ==
    /\ blob = getDefaultData
    /\ hasStorage = FALSE
    /\ authToken = NULL
    /\ eventQueue = <<>>
    /\ syncInProgress = FALSE
    /\ now = 0
    /\ handler = [h \in Handlers |-> HandlerIdle]
    /\ sync = [c \in SyncCalls |-> SyncIdle]
    /\ auth = AuthIdle
    /\ turnedAway = {}
    /\ refused = FALSE
    /\ pg = <<>>
    /\ mock = <<>>
    /\ request = RequestIdle
    /\ redaction \in {[NoRedaction EXCEPT !.url = url] : url \in Urls}
    /\ api = ApiServing(Configured)
    /\ scorer = NoSession

\* redactSensitiveUrl is applied to the url
RedactOnce ==
    /\ redaction.pass = 0
    /\ redaction' = [redaction EXCEPT
                        !.once = redactSensitiveUrl(redaction.url),
                        !.pass = 1]
    /\ UNCHANGED <<client, server, others>>

\* redactSensitiveUrl is applied to what it returned
RedactTwice ==
    /\ redaction.pass = 1
    /\ redaction' = [redaction EXCEPT
                        !.twice = redactSensitiveUrl(redaction.once),
                        !.pass = 2]
    /\ UNCHANGED <<client, server, others>>

NextRedact == RedactOnce \/ RedactTwice

SpecRedact == InitRedact /\ [][NextRedact]_vars

\* C20: redactSensitiveUrl applied to its own result returns that result.
C20_RedactIdempotent == redaction.pass = 2 => redaction.twice = redaction.once

\* the second application was made to a url that the first one had
\* changed, in a sensitive parameter and in the encoding of another one
C20_Witness ==
    /\ redaction.pass = 2
    /\ redaction.url = "https://a.example/?q=a%20b&token=abc#token=abc"
    /\ redaction.once =
          "https://a.example/?q=a+b&token=%5BREDACTED%5D#token=abc"

(* ------------------------------------------------------------------ *)
(* Eviction and acknowledgement in the StorageManager                 *)
(* ------------------------------------------------------------------ *)
\* a storeEvent call that finds the store full and drops its oldest event
Evicts == now' = now + 1 /\ Len(blob.events) = MAX_LOCAL_EVENTS

\* what an observer of the client can read besides the events kept, the
\* tab snapshots and the clock: the rest of StoredData and the ApiClient
Observable ==
    <<blob.config, blob.lastSync, blob.authToken, hasStorage, authToken,
      eventQueue, syncInProgress, handler, sync, auth, turnedAway>>

\* C21: whenever storeEvent evicts events because the store exceeds 1000
\* entries, the loss is recorded in observable state: some count or metric
\* of the client state changes with the eviction.
C21_EvictionRecorded == [][Evicts => Observable' # Observable]_vars

\* C22: markEventsSynced called with local ids that are not in the store
\* is a no-op for those ids: the call completes, and the stored sequence
\* keeps every event whose local id is not in the argument, each at the
\* place it had among the events kept; ids of no stored event remove
\* nothing.
C22_AbsentIdsNoOp ==
    [][\A localIds \in SUBSET AckCandidates :
          /\ ENABLED markEventsSynced(localIds)
          /\ markEventsSynced(localIds) =>
                LET removed == {k \in 1..Len(blob.events) :
                                   blob.events[k].localId \in localIds}
                    kept == (1..Len(blob.events)) \ removed
                IN  /\ Len(blob'.events) =
                          Len(blob.events) - Cardinality(removed)
                    /\ \A k \in kept :
                          blob'.events[k - Cardinality({j \in removed :
                                                          j < k})]
                             = blob.events[k]
                    /\ removed = {} => blob'.events = blob.events
      ]_vars

\* markEventsSynced has returned and the store holds every event appended,
\* the first of the run included: the ids it was given were of no stored
\* event
C22_Witness ==
    /\ blob.lastSync # NULL
    /\ now > 0
    /\ Len(blob.events) = Appended

(* ------------------------------------------------------------------ *)
(* Capture with the queue at the threshold, no timer and an endpoint   *)
(* that never responds                                                *)
(* ------------------------------------------------------------------ *)
\* one event short of the threshold of queueEvent
InitCapture ==
    \E wired \in BOOLEAN : InitAfter(autoSyncThreshold - 1, wired, 0)

NextCapture ==
    \/ \E h \in Handlers, tab \in BrowserTabs, eventType \in TabEventTypes :
          handleTabEvent(h, tab, eventType)
    \/ \E h \in Handlers : StoreEventSet(h)
    \/ \E h \in Handlers : queueEvent(h)
    \/ authToken = NULL /\ authenticate
    \/ SetAuthTokenSet
    \/ \E c \in SyncCalls : SyncCollect(c)

SpecCapture == InitCapture /\ [][NextCapture]_vars

\* the request of call c is on its way
Sending(c) == sync[c].pc = "wait" /\ sync[c].response = "request"

\* C23: whenever queueEvent leaves the queue holding at least 10 events, a
\* sync attempt is started in the same step, with no timer involved, and
\* it goes on to send (at once, or when the read of the store resolves),
\* unless a sync is already in flight or no credential is present, in
\* which case nothing is started.
C23_ThresholdStartsSync ==
    [][ /\ \A h \in Handlers :
              queueEvent(h) /\ Len(eventQueue') >= autoSyncThreshold =>
                 IF syncInProgress \/ authToken = NULL
                 THEN UNCHANGED <<sync, syncInProgress>>
                 ELSE /\ syncInProgress'
                      /\ \E c \in SyncCalls :
                            /\ sync[c].pc = "idle"
                            /\ IF hasStorage THEN sync'[c].pc = "read"
                                             ELSE Sending(c)'
        /\ \A c \in SyncCalls : SyncCollect(c) => Sending(c)'
      ]_vars

\* a sync that queueEvent started has read the store and sent the stored
\* and the queued events
C23_Witness ==
    \E c \in SyncCalls :
       /\ hasStorage /\ Sending(c)
       /\ Len(sync[c].allEvents) >= 2 * autoSyncThreshold

\* the event loop resumes a suspended handler when its storage call has
\* resolved
FairnessCapture ==
    \A h \in Handlers :
       WF_vars(CloseEvent(h) \/ StoreEventSet(h) \/ RemoveTabInfoGet(h)
               \/ RemoveTabInfoSet(h) \/ queueEvent(h))

\* the extension as the background script wires it, with tabs that close
NextCaptureLive ==
    \/ \E h \in Handlers, tab \in BrowserTabs, eventType \in TabEventTypes :
          handleTabEvent(h, tab, eventType)
    \/ \E h \in Handlers, tabId \in TabIds : handleTabClose(h, tabId, 1)
    \/ \E h \in Handlers : CloseEvent(h)
    \/ \E h \in Handlers : StoreEventSet(h)
    \/ \E h \in Handlers : RemoveTabInfoGet(h)
    \/ \E h \in Handlers : RemoveTabInfoSet(h)
    \/ \E h \in Handlers : queueEvent(h)
    \/ authToken = NULL /\ authenticate

SpecCaptureLive ==
    /\ InitAfter(autoSyncThreshold - 1, FALSE, 0)
    /\ [][NextCaptureLive]_vars
    /\ FairnessCapture

\* C24: capturing an event never waits on network I/O: a handler that has
\* begun handleTabEvent or handleTabClose stores and queues its event and
\* returns, also when queueEvent has started a sync and the ingestion
\* endpoint never responds.
C24_CaptureNeverWaits ==
    \A h \in Handlers : handler[h].pc # "idle" ~> handler[h].pc = "idle"

\* every event of the run is captured and every handler has returned
\* while the request of the sync that queueEvent started is unanswered
C24_Witness ==
    /\ \E c \in SyncCalls : Sending(c)
    /\ \A h \in Handlers : handler[h].pc = "idle"
    /\ now = MaxEvents
    /\ Len(eventQueue) = autoSyncThreshold - 1 + MaxEvents

(* ------------------------------------------------------------------ *)
(* Tabs that navigate and close                                       *)
(* ------------------------------------------------------------------ *)
\* tab 1 after a navigation, its page not yet titled
Tab1Next ==
    [id |-> 1, windowId |-> 1, url |-> "https://a.example/next",
     title |-> ""]
TabsShown == BrowserTabs \cup {Tab1Next}

\* chrome.tabs.onRemoved has fired for the tab: its handler is running or
\* has queued the close event
Closed(tabId) ==
    \/ \E h \in Handlers : handler[h].tabId = tabId
    \/ \E e \in Range(eventQueue) : e.type = "close" /\ e.tab_id = tabId

\* the browser reports a tab until it is removed, and removes it once
NextClose ==
    \/ \E h \in Handlers, tab \in TabsShown, eventType \in TabEventTypes :
          ~Closed(tab.id) /\ handleTabEvent(h, tab, eventType)
    \/ \E h \in Handlers, tabId \in TabIds :
          ~Closed(tabId) /\ handleTabClose(h, tabId, 1)
    \/ \E h \in Handlers : CloseEvent(h)
    \/ \E h \in Handlers : StoreEventSet(h)
    \/ \E h \in Handlers : RemoveTabInfoGet(h)
    \/ \E h \in Handlers : RemoveTabInfoSet(h)
    \/ \E h \in Handlers : queueEvent(h)

SpecClose == Init /\ [][NextClose]_vars

\* the most recent stored event for a tab id, NoEvent if there is none
LastStored(tabId) ==
    LET ks == {k \in 1..Len(blob.events) : blob.events[k].tab_id = tabId}
    IN  IF ks = {} THEN NoEvent
        ELSE blob.events[CHOOSE k \in ks : \A j \in ks : j <= k]

\* C25: if the most recent stored event for a tab id had a non-empty title
\* and url and the tab is then closed, handleTabClose recovers that title
\* and url and the close event it creates carries them; if no snapshot
\* exists for the tab id, the close event carries the title 'Closed Tab'
\* and an empty url.
C25_CloseCarriesLastKnown ==
    [][\A h \in Handlers :
          /\ \A tabId \in TabIds :
                ~Closed(tabId) /\ handleTabClose(h, tabId, 1) =>
                   /\ LastStored(tabId).title # ""
                         /\ LastStored(tabId).url # "" =>
                            /\ handler'[h].info.title = LastStored(tabId).title
                            /\ handler'[h].info.url = LastStored(tabId).url
                   /\ tabId \notin DOMAIN blob.tabInfo =>
                         handler'[h].info = NoTabInfo
          /\ CloseEvent(h) =>
                /\ handler'[h].event.type = "close"
                /\ handler'[h].event.tab_id = handler[h].tabId
                /\ IF handler[h].info = NoTabInfo
                   THEN /\ handler'[h].event.title = "Closed Tab"
                        /\ handler'[h].event.url = ""
                   ELSE /\ handler'[h].event.title = handler[h].info.title
                        /\ handler'[h].event.url = handler[h].info.url
      ]_vars

\* tab 1 was seen with the title "A", then at another url with the
\* placeholder title, then closed: its close event carries the later pair
C25_Witness ==
    /\ \E e \in Range(blob.events) : e.tab_id = 1 /\ e.title = "A"
    /\ \E e \in Range(eventQueue) :
          /\ e.type = "close" /\ e.tab_id = 1
          /\ e.title = "Untitled" /\ e.url = "https://a.example/next"

\* C30: every event created by handleTabEvent has a non-empty title: a
\* tab whose title is empty or missing yields an event with the
\* placeholder title 'Untitled', any other tab an event with its title.
C30_TitleNeverEmpty ==
    [][ /\ \A h \in Handlers, tab \in TabsShown, eventType \in TabEventTypes :
              handleTabEvent(h, tab, eventType) /\ handler'[h].pc = "store" =>
                 /\ handler'[h].event.title # ""
                 /\ handler'[h].event.title =
                       (IF tab.title = "" THEN "Untitled" ELSE tab.title)
        /\ \A e \in Range(blob'.events) \cup Range(eventQueue') :
              e.type # "close" => e.title # ""
      ]_vars

\* the event of a tab without a title is stored and queued under the
\* placeholder title
C30_Witness ==
    /\ \E e \in Range(blob.events) : e.type = "update" /\ e.title = "Untitled"
    /\ \E e \in Range(eventQueue) : e.type = "update" /\ e.title = "Untitled"

(* ------------------------------------------------------------------ *)
(* Signing in at POST /auth/login of this repository                  *)
(* ------------------------------------------------------------------ *)
\* obj[key] read from a JavaScript object: undefined when the key is
\* missing.  The code only tests the token for truthiness, so undefined
\* and null are not told apart.
Get(obj, key) == IF key \in DOMAIN obj THEN obj[key] ELSE NULL

\* res.json({ success: true, data: authResponse })
LoginBody ==
    [success |-> TRUE,
     data |-> [access_token |-> Token, refresh_token |-> "refresh_token",
               expires_in |-> expiresIn]]

\* handleResponse: the parsed body becomes the data of the ApiResponse
handleResponse(ok, body) ==
    IF ok THEN [success |-> TRUE, data |-> body]
          ELSE [success |-> FALSE, data |-> <<>>]

\* getHeaders
getHeaders(token) ==
    IF token # NULL THEN [Authorization |-> "Bearer " \o token] ELSE <<>>

\* authenticate: the response of /auth/login has arrived with status 200
authenticateLogin ==
    LET response == handleResponse(TRUE, LoginBody)
        token == Get(response.data, "access_token")
    IN  /\ auth.pc = "idle"
        /\ response.success
        /\ authToken' = token
        /\ auth' = IF hasStorage
                   THEN [pc |-> "login", token |-> token, data |-> blob]
                   ELSE AuthIdle
        /\ refused' = FALSE
        /\ UNCHANGED <<blob, hasStorage, eventQueue, syncInProgress, now,
                       handler, sync, turnedAway, server, redaction, others>>

NextLogin ==
    \/ \E h \in Handlers, tab \in BrowserTabs, eventType \in TabEventTypes :
          handleTabEvent(h, tab, eventType)
    \/ \E h \in Handlers : StoreEventSet(h)
    \/ \E h \in Handlers : queueEvent(h)
    \/ authenticateLogin
    \/ SetAuthTokenSet

SpecLogin == InitCapture /\ [][NextLogin]_vars

\* C26: after authenticate() succeeds against a login response of the form
\* { success, data: { access_token, ... } }, the client holds exactly the
\* access token the server issued, and the requests it sends from then on
\* carry the header Authorization: Bearer <access_token>.
C26_HoldsIssuedToken ==
    [][authenticateLogin =>
          /\ authToken' = Token
          /\ getHeaders(authToken') = [Authorization |-> "Bearer " \o Token]
      ]_vars

(* ------------------------------------------------------------------ *)
(* The API server and its secrets                                     *)
(* ------------------------------------------------------------------ *)
Envs ==
    [JWT_SECRET : {NULL, "jwt"}, REFRESH_TOKEN_SECRET : {NULL, "refresh"}]

\* the server is listening.  None of its modules reads a secret when it is
\* loaded: routes and middleware read process.env inside their handlers.
InitApi ==
    /\ blob = getDefaultData
    /\ hasStorage = FALSE
    /\ authToken = NULL
    /\ eventQueue = <<>>
    /\ syncInProgress = FALSE
    /\ now = 0
    /\ handler = [h \in Handlers |-> HandlerIdle]
    /\ sync = [c \in SyncCalls |-> SyncIdle]
    /\ auth = AuthIdle
    /\ turnedAway = {}
    /\ refused = FALSE
    /\ pg = <<>>
    /\ mock = <<>>
    /\ request = RequestIdle
    /\ redaction = NoRedaction
    /\ api \in {ApiServing(env) : env \in Envs}
    /\ scorer = NoSession

\* the answer of a request: its status, whether its handler found a secret
\* missing, and req.userId
Answer(status, missing, userId) ==
    [api EXCEPT !.status = status, !.detected = @ \/ missing,
                !.userId = userId]

\* authMiddleware for a request whose Authorization header is absent,
\* carries a token that verifies, or carries one that does not
authMiddleware(header) ==
    /\ api.state = "serving"
    /\ api' = IF header = "none" THEN Answer(401, FALSE, NULL)
              ELSE IF api.env.JWT_SECRET = NULL THEN Answer(500, TRUE, NULL)
              ELSE IF header = "valid" THEN Answer(200, FALSE, "user")
              ELSE Answer(401, FALSE, NULL)
    /\ UNCHANGED <<client, server, redaction, scorer>>

\* POST /auth/login with the email and password of a user:
\* generateAccessToken, then generateRefreshToken
login ==
    /\ api.state = "serving"
    /\ api' = IF api.env.JWT_SECRET = NULL THEN Answer(500, TRUE, NULL)
              ELSE IF api.env.REFRESH_TOKEN_SECRET = NULL
                   THEN Answer(500, TRUE, NULL)
              ELSE Answer(200, FALSE, NULL)
    /\ UNCHANGED <<client, server, redaction, scorer>>

\* POST /auth/refresh with a refresh token that verifies or does not
refresh(token) ==
    /\ api.state = "serving"
    /\ api' = IF token = "none" THEN Answer(400, FALSE, NULL)
              ELSE IF api.env.REFRESH_TOKEN_SECRET = NULL
                   THEN Answer(500, TRUE, NULL)
              ELSE IF token # "valid" THEN Answer(401, FALSE, NULL)
              ELSE IF api.env.JWT_SECRET = NULL THEN Answer(500, TRUE, NULL)
              ELSE Answer(200, FALSE, NULL)
    /\ UNCHANGED <<client, server, redaction, scorer>>

\* the routes of /auth, and /events/batch behind authMiddleware
NextApi ==
    \/ \E header \in {"none", "valid", "invalid"} : authMiddleware(header)
    \/ login
    \/ \E token \in {"none", "valid", "invalid"} : refresh(token)
    \/ api.userId # NULL /\ \E body \in Bodies : PostBatch(body)
    \/ PgBegin
    \/ PgUnavailable
    \/ PgInsert
    \/ PgCommit
    \/ PgError
    \/ MockInsert

SpecApi == InitApi /\ [][NextApi]_vars

\* C27: if JWT_SECRET or REFRESH_TOKEN_SECRET is missing, the API server
\* fails at startup and never serves a request: no request is answered
\* while a secret is missing and no request handler is the first to find
\* the configuration incomplete.
C27_FailsAtStartup ==
    (\E name \in DOMAIN api.env : api.env[name] = NULL) =>
       api.status = 0 /\ ~api.detected

(* ------------------------------------------------------------------ *)
(* The clustering scorer                                              *)
(* ------------------------------------------------------------------ *)
\* sessions opened in a run
MaxSessions == 2

FlatWeights ==
    [semantic_shift_below_0_6 |-> 1, majority_shift_over_50pct |-> 1,
     idle_gap_over_20m |-> 1, new_window_boundary |-> 1,
     persistence_over_2_snapshots_or_3_tabs |-> 1]
DEFAULT_CLUSTERING_WEIGHTS ==
    [semantic_shift_below_0_6 |-> 3, majority_shift_over_50pct |-> 2,
     idle_gap_over_20m |-> 1, new_window_boundary |-> 3,
     persistence_over_2_snapshots_or_3_tabs |-> 2]

\* Session.mode
Modes == {"strict", "loose"}
\* what comparing a snapshot with the current session can find
Signals == [DOMAIN DEFAULT_CLUSTERING_WEIGHTS -> BOOLEAN]

\* ClusteringScore.total: the weights of the signals that are true
RECURSIVE SumOver(_, _, _)
SumOver(names, signals, weights) ==
    IF names = {} THEN 0
    ELSE LET name == CHOOSE x \in names : TRUE
         IN  (IF signals[name] THEN weights[name] ELSE 0)
                + SumOver(names \ {name}, signals, weights)
Total(signals, weights) == SumOver(DOMAIN weights, signals, weights)

\* the boundary decision for a snapshot compared with a session of the
\* given mode
DecideByScore(mode, signals, weights) ==
    IF Total(signals, weights) >= PROMOTION_THRESHOLD THEN "new" ELSE "merge"
Decide(mode, signals, weights) ==
    IF mode = "strict"
    THEN IF signals.new_window_boundary THEN "new" ELSE "merge"
    ELSE IF Total(signals, weights) >= PROMOTION_THRESHOLD THEN "new"
         ELSE "merge"

\* the first snapshot of a user starts a session
FirstSnapshot(mode) ==
    /\ scorer.sessions = 0
    /\ scorer' = [NoSession EXCEPT !.sessions = 1, !.mode = mode,
                                   !.scoredIn = "first", !.decision = "new"]
    /\ UNCHANGED <<client, server, redaction, api>>

\* a later snapshot is scored against the current session: it is merged
\* into it or it starts a session of the given mode
ScoreSnapshot(signals, mode) ==
    LET decision == Decide(scorer.mode, signals, DEFAULT_CLUSTERING_WEIGHTS)
    IN  /\ scorer.sessions > 0
        /\ decision = "new" => scorer.sessions < MaxSessions
        /\ scorer' =
              [sessions |-> IF decision = "new" THEN scorer.sessions + 1
                                                 ELSE scorer.sessions,
               mode |-> IF decision = "new" THEN mode ELSE scorer.mode,
               scoredIn |-> scorer.mode,
               signals |-> signals,
               total |-> Total(signals, DEFAULT_CLUSTERING_WEIGHTS),
               decision |-> decision]
        /\ UNCHANGED <<client, server, redaction, api>>

NextScorer ==
    \/ \E mode \in Modes : FirstSnapshot(mode)
    \/ \E signals \in Signals, mode \in Modes : ScoreSnapshot(signals, mode)

SpecScorer == Init /\ [][NextScorer]_vars

\* what a signal adds to the score
Weighs(signal, weight) == IF signal THEN weight ELSE 0

C29_StrictByWindow ==
    [][\A signals \in Signals, mode \in Modes :
          ScoreSnapshot(signals, mode) =>
             IF scorer.mode = "strict"
             THEN scorer'.decision =
                     (IF signals.new_window_boundary THEN "new" ELSE "merge")
             ELSE scorer'.decision = "new"
                     <=> scorer'.total >= PROMOTION_THRESHOLD
      ]_vars

\* a snapshot of the same window that reached the promotion threshold
\* was merged into a strict session
C29_Witness ==
    /\ scorer.scoredIn = "strict"
    /\ ~scorer.signals.new_window_boundary
    /\ scorer.total >= PROMOTION_THRESHOLD
    /\ scorer.decision = "merge"

(* ------------------------------------------------------------------ *)
(* Events that are both stored and queued                             *)
(* ------------------------------------------------------------------ *)
\* C31: for an ApiClient constructed with a StorageManager, an event that
\* a handler captured once, stored and queued, appears at most once among
\* the events that a single syncPendingEvents call transmits (an event is
\* told from the others by its time of capture).
C31_SentOnce ==
    \A c \in SyncCalls :
       hasStorage =>
          Cardinality(Stamps(Concat(sync[c].sent))) = Len(Concat(sync[c].sent))

(* ------------------------------------------------------------------ *)
(* The ways a syncPendingEvents call ends                             *)
(* ------------------------------------------------------------------ *)
\* markEventsSynced throws (setData rethrows a failed storage write): the
\* outer catch, then the finally block; line 102 is not reached
SyncMarkFails(c) ==
    /\ sync[c].pc = "mark"
    /\ Apply(c, Return(eventQueue))
    /\ UNCHANGED <<blob, hasStorage, authToken, now, handler, auth, turnedAway,
                   refused, server, redaction, others>>

NextFinish ==
    \/ NextBacklog
    \/ \E c \in SyncCalls : SyncMarkFails(c)

SpecFinish == InitBacklog /\ [][NextFinish]_vars

\* C32: whenever a syncPendingEvents call that set the in-flight flag
\* finishes (by completing, by returning on an empty pending list, after a
\* failed batch send or after a failure of markEventsSynced) the flag is
\* cleared, and the flag is never set while no call is running, so a
\* finished sync never blocks a later one.
C32_FlagCleared ==
    [][ /\ \A c \in SyncCalls :
              sync[c].pc # "idle" /\ sync'[c].pc = "idle" => ~syncInProgress'
        /\ syncInProgress' => \E c \in SyncCalls : sync'[c].pc # "idle"
        /\ TimerSync /\ ~syncInProgress /\ authToken # NULL =>
              (syncInProgress' <=> \E c \in SyncCalls : sync'[c].pc # "idle")
      ]_vars

\* a call of a client with a StorageManager has completed and marked its
\* events, and the flag is clear
C32_Witness ==
    /\ hasStorage /\ blob.lastSync # NULL
    /\ \A c \in SyncCalls : sync[c].pc = "idle"
    /\ ~syncInProgress

\* C33: an event passed to queueEvent while a syncPendingEvents call is in
\* flight, after the call read its pending list, is still in the queue
\* when the call finishes: the clean-up of the queue removes only events
\* whose local ids the endpoint confirmed in that call.
C33_LateEventsKept ==
    [][\A c \in SyncCalls :
          sync[c].pc # "idle" /\ sync'[c].pc = "idle" =>
             \A k \in 1..Len(eventQueue) :
                /\ eventQueue[k].localId \notin LocalIds(sync[c].allEvents)
                      => eventQueue[k] \in Range(eventQueue')
                /\ eventQueue[k] \notin Range(eventQueue')
                      => eventQueue[k].localId \in sync[c].accepted
      ]_vars

\* the calls have finished and the queue holds the event of the run and
\* nothing else: it was queued while the call that confirmed the others
\* was in flight
C33_Witness ==
    /\ authToken # NULL
    /\ \A c \in SyncCalls : sync[c].pc = "idle"
    /\ Len(eventQueue) = 1
    /\ eventQueue[1].ts = MaxEvents

(* ------------------------------------------------------------------ *)
(* The StorageManager when chrome.storage.local fails to read         *)
(* ------------------------------------------------------------------ *)
\* getData: the stored blob, or the default data when nothing is stored
\* or chrome.storage.local.get rejects (the catch block)
getData(stored, readOk) == IF readOk THEN stored ELSE getDefaultData

\* storeEvent, from its call to its return, its read succeeding or not
storeEventRead(event, readOk) ==
    /\ now < MaxEvents
    /\ now' = now + 1
    /\ blob' = storeEventData(getData(blob, readOk), event)
    /\ UNCHANGED <<hasStorage, authToken, eventQueue, syncInProgress,
                   handler, sync, auth, turnedAway, refused,
                   server, redaction, others>>

NextStoreRead ==
    \/ \E tabId \in TabIds, readOk \in BOOLEAN :
          storeEventRead(NewEvent(1, tabId, "update", "A",
                                  redactSensitiveUrl(Tab1.url), now + 1),
                         readOk)
    \/ \E localIds \in SUBSET AckCandidates : markEventsSynced(localIds)

SpecStoreRead == InitStore /\ [][NextStoreRead]_vars

\* C34: a storeEvent call that stays within the capacity never drops
\* previously stored events, the auth token or the config, even if the
\* storage read inside it fails: it appends its event and leaves the rest
\* of the stored data as it was.
C34_StoreKeepsData ==
    [][now' = now + 1 /\ Len(blob.events) < MAX_LOCAL_EVENTS =>
          /\ Len(blob'.events) = Len(blob.events) + 1
          /\ SubSeq(blob'.events, 1, Len(blob.events)) = blob.events
          /\ blob'.authToken = blob.authToken
          /\ blob'.config = blob.config
          /\ blob'.lastSync = blob.lastSync
      ]_vars

(* ------------------------------------------------------------------ *)
(* Signing out while a sync is in flight                              *)
(* ------------------------------------------------------------------ *)
\* the backlog is synced while the user signs in and out; no tab event
\* arrives during the run
NextLogout ==
    \/ authToken = NULL /\ authenticate
    \/ logout
    \/ SetAuthTokenSet
    \/ LogoutClear
    \/ TimerSync
    \/ \E c \in SyncCalls : SyncCollect(c)
    \/ \E c \in SyncCalls : ServerAccept(c)
    \/ \E c \in SyncCalls : ServerReject(c)
    \/ \E c \in SyncCalls : SyncReceive(c)
    \/ \E c \in SyncCalls : NetworkError(c)
    \/ \E c \in SyncCalls : SyncMark(c)
    \/ \E c \in SyncCalls : SyncFinish(c)

SpecLogout == InitBacklog /\ [][NextLogout]_vars

\* C35: after logout() has completed the client sends no /events/batch
\* request until a later authenticate() succeeds, also when a
\* syncPendingEvents call was in flight with batches left to send: every
\* request is sent while the client holds a credential.
C35_NoSendAfterLogout ==
    [][\A c \in SyncCalls :
          Len(sync'[c].sent) > Len(sync[c].sent) => authToken # NULL
      ]_vars

(* ------------------------------------------------------------------ *)
(* The in-memory queue of a client whose syncs never succeed          *)
(* ------------------------------------------------------------------ *)
\* tab events keep arriving; the user may sign in, and every request
\* then fails on the network
NextQueue ==
    \/ \E h \in Handlers, tab \in BrowserTabs, eventType \in TabEventTypes :
          handleTabEvent(h, tab, eventType)
    \/ \E h \in Handlers : StoreEventSet(h)
    \/ \E h \in Handlers : queueEvent(h)
    \/ authToken = NULL /\ authenticate
    \/ TimerSync
    \/ \E c \in SyncCalls : NetworkError(c)

SpecQueue == InitStore /\ [][NextQueue]_vars

\* C36: the in-memory queue of the ApiClient never holds more events than
\* a fixed capacity, also while no credential is present or every sync
\* fails; the capacity is the one the client states for locally kept
\* events, MAX_LOCAL_EVENTS.
C36_QueueBounded == Len(eventQueue) <= MAX_LOCAL_EVENTS

(* ------------------------------------------------------------------ *)
(* DatabaseConnection.transaction and its callback                    *)
(* ------------------------------------------------------------------ *)
\* C37: DatabaseConnection.transaction runs its callback at most once per
\* call: once the callback has run on the PostgreSQL client, the request is
\* answered next; a failure after BEGIN is rolled back and reported, so the
\* answer is a success only when the rows were committed, and the callback
\* is not started again on the mock database.
C37_CallbackRunsOnce ==
    [][request.pc = "pg" /\ request'.pc # "pg" =>
          /\ request'.pc = "done"
          /\ request'.status = 200 <=> Len(pg') > Len(pg)
      ]_vars

(* ------------------------------------------------------------------ *)
(* Closing a tab while another tab produces events                    *)
(* ------------------------------------------------------------------ *)
\* a second tab that shows a page
Tab2 ==
    [id |-> 2, windowId |-> 1, url |-> "https://b.example/", title |-> "B"]

\* the first tab has produced an event
InitOthers == InitAfter(1, FALSE, 0)

\* the first tab is removed, once, and produces no further event; the
\* second tab keeps producing events
NextOthers ==
    \/ \E h \in Handlers, eventType \in TabEventTypes :
          handleTabEvent(h, Tab2, eventType)
    \/ \E h \in Handlers : ~Closed(Tab1.id) /\ handleTabClose(h, Tab1.id, 1)
    \/ \E h \in Handlers : CloseEvent(h)
    \/ \E h \in Handlers : StoreEventSet(h)
    \/ \E h \in Handlers : RemoveTabInfoGet(h)
    \/ \E h \in Handlers : RemoveTabInfoSet(h)
    \/ \E h \in Handlers : queueEvent(h)

SpecOthers == InitOthers /\ [][NextOthers]_vars

\* handleTabClose(tabId) has completed: its last step has queued the close
\* event
CloseCompleted(tabId) ==
    \E e \in Range(eventQueue) : e.type = "close" /\ e.tab_id = tabId

\* C38: once handleTabClose has completed for a tab that produces no
\* further event, getTabInfo returns null for it, whatever handlers run
\* for other tabs at the same time.
C38_ClosedTabForgotten ==
    CloseCompleted(Tab1.id) => getTabInfo(blob, Tab1.id) = NoTabInfo

(* ------------------------------------------------------------------ *)
(* Handlers whose storage write fails                                 *)
(* ------------------------------------------------------------------ *)
\* the catch of the handler: the failure is logged and the handler returns
AfterStoreFailureQueued(h) == [handler[h] EXCEPT !.pc = "queue"]
AfterStoreFailure(h) == HandlerIdle

\* storeEvent: setData throws; the error leaves storeEvent and the try
\* block of the handler
StoreEventFails(h) ==
    /\ handler[h].pc = "store"
    /\ handler' = [handler EXCEPT ![h] = AfterStoreFailure(h)]
    /\ UNCHANGED <<blob, hasStorage, authToken, eventQueue, syncInProgress,
                   now, sync, auth, turnedAway, refused, server,
                   redaction, others>>

\* removeTabInfo: setData throws
RemoveTabInfoFails(h) ==
    /\ handler[h].pc = "remove_set"
    /\ handler' = [handler EXCEPT ![h] = HandlerIdle]
    /\ UNCHANGED <<blob, hasStorage, authToken, eventQueue, syncInProgress,
                   now, sync, auth, turnedAway, refused, server,
                   redaction, others>>

\* the queue is one event short of the threshold, so that the next
\* queueEvent calls syncPendingEvents
NextFails ==
    \/ \E h \in Handlers, tab \in BrowserTabs, eventType \in TabEventTypes :
          ~Closed(tab.id) /\ handleTabEvent(h, tab, eventType)
    \/ \E h \in Handlers, tabId \in TabIds :
          ~Closed(tabId) /\ handleTabClose(h, tabId, 1)
    \/ \E h \in Handlers : CloseEvent(h)
    \/ \E h \in Handlers : StoreEventSet(h)
    \/ \E h \in Handlers : StoreEventFails(h)
    \/ \E h \in Handlers : RemoveTabInfoGet(h)
    \/ \E h \in Handlers : RemoveTabInfoSet(h)
    \/ \E h \in Handlers : RemoveTabInfoFails(h)
    \/ \E h \in Handlers : queueEvent(h)
    \/ authToken = NULL /\ authenticate
    \/ SetAuthTokenSet

SpecFails == InitCapture /\ [][NextFails]_vars

\* the step writes the event of handler h to the store
StoreWritten(h) ==
    /\ handler[h].pc = "store"
    /\ blob' = storeEventData(handler[h].data, handler[h].event)

\* C39: a handler passes its event to queueEvent only after storeEvent has
\* written it: a handler comes to its queueEvent call only by a storage
\* write that succeeded, the queue grows only by the event of a handler
\* that has come there, and a handler whose storeEvent fails returns
\* with the queue and the sync calls as they were.
C39_QueuedOnlyIfStored ==
    [][ /\ \A h \in Handlers :
            /\ handler[h].pc # "queue" /\ handler'[h].pc = "queue" =>
                  \/ StoreWritten(h)
                  \/ /\ handler[h].pc = "remove_set"
                     /\ blob' = removeTabInfoData(handler[h].data,
                                                  handler[h].tabId)
            /\ handler[h].pc # "remove" /\ handler'[h].pc = "remove" =>
                  StoreWritten(h)
            /\ handler[h].pc = "store" /\ handler'[h].pc # "store"
               /\ ~StoreWritten(h) =>
                  /\ handler'[h] = HandlerIdle
                  /\ eventQueue' = eventQueue
                  /\ sync' = sync /\ syncInProgress' = syncInProgress
        /\ eventQueue' # eventQueue =>
              \E h \in Handlers :
                 /\ handler[h].pc = "queue"
                 /\ eventQueue' =
                       Append(eventQueue,
                              WithLocalId(handler[h].event,
                                          handlerLocalId(handler[h].event.ts)))
      ]_vars

\* a signed-in client has created an event whose storeEvent failed: the
\* handlers have returned, the store and the queue are as they were, and no
\* sync was started although the queue was one short of the threshold
C39_Witness ==
    /\ now = 1 /\ authToken # NULL
    /\ \A h \in Handlers : handler[h] = HandlerIdle
    /\ blob.events = StoredAfter(autoSyncThreshold - 1)
    /\ eventQueue = QueuedAfter(autoSyncThreshold - 1)
    /\ \A c \in SyncCalls : sync[c] = SyncIdle

====
